---- MODULE Spec2Model ----
(***************************************************************************)
(* Session store (zustand + persist), session verifier hook, route guards  *)
(* and the App shell of the job-board front-end, as a state machine.       *)
(*                                                                         *)
(* The production rendering semantics of React are modelled: a store or    *)
(* location update and the render and effects it triggers form one step.   *)
(***************************************************************************)
EXTENDS Integers, Sequences, FiniteSets, TLC

VARIABLES
    user,          \* store: User | null
    initialized,   \* store: boolean
    localStorage,  \* browser local storage: key -> JSON text (<<>> = no such key)
    appMounted,    \* App has been rendered and its mount effects have run
    route,         \* location.pathname
    search,        \* value of the "payment" query parameter of location.search
    pending,       \* requests in flight, counted per kind
    last,          \* the step just taken and what it did (history)
    page           \* local state of the page component under the route

vars ==
    <<user, initialized, localStorage, appMounted, route, search, pending, last,
      page>>

-----------------------------------------------------------------------------
(* Bounds *)

\* requests that may be in flight at the same time
MaxInFlight == 3

\* entries of the browser history the user may pile up under /post
MaxHistory == 3

\* payment initiations of one pricing card that may be in flight
MaxInitiations == 2

\* the latest instant of the clock of the apply page
MaxClock == 2

\* applications one visit of the apply page may send
MaxApplications == 2

\* the pages the server's list of the user's jobs has at most
MaxPages == 3

-----------------------------------------------------------------------------
(* Data *)

NULL == [null |-> TRUE]

Roles == {"employer", "employee", "both"}

Plans == {"standard", "premium"}

\* interface User, the fields the code reads; the records the server may hold
Users ==
    { [id |-> "u1", role |-> "employee", plan |-> "standard"],
      [id |-> "u1", role |-> "both", plan |-> "standard"],
      [id |-> "u1", role |-> "both", plan |-> "premium"] }

StorageKey == "user-storage"

LegacyKey == "user"

Keys == {StorageKey, LegacyKey}

PersistVersion == 0

-----------------------------------------------------------------------------
(* JSON text, as a sequence of tokens.  An object is "{" key value ... "}",*)
(* a string is the token "\"" followed by its characters.                  *)

BoolToken(b) == IF b THEN "true" ELSE "false"

\* JSON.stringify of a User | null
StringifyUser(u) ==
    IF u = NULL THEN <<"null">>
    ELSE <<"{", "id", "\"", u.id, "role", "\"", u.role, "plan", "\"", u.plan, "}">>

\* JSON.stringify of the persisted part of the store state
StringifyState(p) ==
    <<"{">>
    \o (IF "user" \in DOMAIN p THEN <<"user">> \o StringifyUser(p.user) ELSE <<>>)
    \o (IF "initialized" \in DOMAIN p
        THEN <<"initialized", BoolToken(p.initialized)>> ELSE <<>>)
    \o <<"}">>

\* JSON.stringify({ state, version })
StringifyStorageValue(p) ==
    <<"{", "state">> \o StringifyState(p) \o <<"version", "0", "}">>

RECURSIVE ParseValue(_, _), ParseMembers(_, _, _)

\* JSON.parse: the value that starts at token i, and the index after it
ParseValue(t, i) ==
    IF t[i] = "null" THEN [v |-> NULL, n |-> i + 1]
    ELSE IF t[i] = "true" THEN [v |-> TRUE, n |-> i + 1]
    ELSE IF t[i] = "false" THEN [v |-> FALSE, n |-> i + 1]
    ELSE IF t[i] = "0" THEN [v |-> 0, n |-> i + 1]
    ELSE IF t[i] = "\"" THEN [v |-> t[i + 1], n |-> i + 2]
    ELSE ParseMembers(t, i + 1, <<>>)

ParseMembers(t, i, acc) ==
    IF t[i] = "}" THEN [v |-> acc, n |-> i + 1]
    ELSE LET r == ParseValue(t, i + 1)
         IN  ParseMembers(t, r.n, acc @@ (t[i] :> r.v))

JSONParse(t) == ParseValue(t, 1).v

-----------------------------------------------------------------------------
(* The store: create(persist((set, get) => ..., { name, partialize }))     *)

StoreState == [user |-> user, initialized |-> initialized]

InitialState == [user |-> NULL, initialized |-> FALSE]

\* variant: the whole state is persisted
PartializeAll(st) == st

\* partialize: (state) => ({ user: state.user })
Partialize(st) == [user |-> st.user]

\* variant: a null user removes the key instead of being written
SetItemRemovesNull(ls, st) ==
    IF st.user = NULL THEN [ls EXCEPT ![StorageKey] = <<>>]
    ELSE [ls EXCEPT ![StorageKey] = StringifyStorageValue([user |-> st.user])]

\* persist's setItem: storage.setItem(name, { state: partialize(get()), version })
SetItem(ls, st) ==
    [ls EXCEPT ![StorageKey] = StringifyStorageValue(Partialize(st))]

\* set(partial): shallow merge into the state
Merge(st, partial) ==
    [k \in {"user", "initialized"} |->
        IF k \in DOMAIN partial THEN partial[k] ELSE st[k]]

\* persist's hydrate: the stored state merged over the initial state
Hydrate(ls) ==
    IF ls[StorageKey] = <<>> THEN InitialState
    ELSE LET stored == JSONParse(ls[StorageKey])
         IN  IF stored.version = PersistVersion
             THEN Merge(InitialState, stored.state)
             ELSE InitialState

-----------------------------------------------------------------------------
(* Store operations.  A store value is the in-memory state together with   *)
(* the local storage the persist middleware writes on every set.           *)

Store == [st |-> StoreState, ls |-> localStorage]

\* variant: a set that is not reflected into storage
StoreSetNoPersist(s, partial) == [st |-> Merge(s.st, partial), ls |-> s.ls]

\* the set handed to the state creator by persist: set(...); setItem()
StoreSet(s, partial) ==
    LET st1 == Merge(s.st, partial)
    IN  [st |-> st1, ls |-> SetItem(s.ls, st1)]

\* variant: setting a user marks the store initialized
SetUserInitializes(s, u) == StoreSet(s, [user |-> u, initialized |-> TRUE])

\* setUser: (user) => set({ user })
SetUser(s, u) == StoreSet(s, [user |-> u])

\* variant: clearing resets the whole state
ClearUserReset(s) ==
    [st |-> InitialState, ls |-> SetItem(s.ls, InitialState)]

\* clearUser: () => set({ user: null })
ClearUser(s) == StoreSet(s, [user |-> NULL])

\* outcomes of a request whose body is read: fetch resolves ok with a record,
\* resolves with a non-success status, rejects, or res.json() throws
BodyOutcomes ==
    {[kind |-> "ok", data |-> u] : u \in Users}
    \cup {[kind |-> k, data |-> NULL] : k \in {"status", "error", "badjson"}}

\* outcomes of a request of which only the status is read
StatusOutcomes == {"ok", "status", "error"}

\* the outcomes that raise an exception inside the try block
Throws(out) == out.kind \in {"error", "badjson"}

\* variant: no shortcut for a user that is already present
InitializeStartAlwaysFetch(s) == [s |-> s, request |-> TRUE]

\* initialize, up to its first await
InitializeStart(s) ==
    IF s.st.user # NULL
    THEN [s |-> StoreSet(s, [initialized |-> TRUE]), request |-> FALSE]
    ELSE [s |-> s, request |-> TRUE]

\* variant: no catch block
InitializeFinishNoCatch(s, out) ==
    IF out.kind \in {"error", "badjson"} THEN [s |-> s, rejected |-> TRUE]
    ELSE IF out.kind = "ok"
    THEN [s |-> [st |-> [user |-> out.data, initialized |-> TRUE],
                 ls |-> SetItem(s.ls, [user |-> out.data, initialized |-> TRUE])],
          rejected |-> FALSE]
    ELSE [s |-> [st |-> [user |-> NULL, initialized |-> TRUE],
                 ls |-> SetItem(s.ls, [user |-> NULL, initialized |-> TRUE])],
          rejected |-> FALSE]

\* variant: a response that finds a user in the store does not replace it
InitializeFinishKeepsUser(s, out) ==
    IF s.st.user # NULL
    THEN [s |-> StoreSet(s, [initialized |-> TRUE]), rejected |-> FALSE]
    ELSE IF out.kind = "ok"
    THEN [s |-> StoreSet(s, [user |-> out.data, initialized |-> TRUE]), rejected |-> FALSE]
    ELSE [s |-> StoreSet(s, [user |-> NULL, initialized |-> TRUE]), rejected |-> FALSE]

\* initialize, from the settled fetch to its end
InitializeFinish(s, out) ==
    IF Throws(out)
    THEN [s |-> StoreSet(s, [user |-> NULL, initialized |-> TRUE]), rejected |-> FALSE]
    ELSE IF out.kind = "ok"
    THEN [s |-> StoreSet(s, [user |-> out.data, initialized |-> TRUE]), rejected |-> FALSE]
    ELSE [s |-> StoreSet(s, [user |-> NULL, initialized |-> TRUE]), rejected |-> FALSE]

\* variant: a failed request leaves the stored user alone
FetchUserFinishKeepsUser(s, out) ==
    IF out.kind = "ok"
    THEN [s |-> [st |-> [s.st EXCEPT !.user = out.data],
                 ls |-> SetItem(s.ls, [s.st EXCEPT !.user = out.data])],
          rejected |-> FALSE]
    ELSE [s |-> s, rejected |-> FALSE]

\* variant: the shortcut of initialize, no request when a user is present
FetchUserStartUnlessUser(st, p, k) ==
    IF st.user # NULL THEN p ELSE [p EXCEPT ![k] = @ + 1]

\* variant: a call joins a request to the same endpoint that is in flight
FetchUserStartCoalesced(st, p, k) ==
    IF p["init"] + p["fetchPay"] + p["fetchVer"] + p["fetchVerGone"] > 0
    THEN p
    ELSE [p EXCEPT ![k] = @ + 1]

\* fetchUser, from its call to its await: whatever the store holds (st) and
\* whatever is in flight (p), one more request of kind k is issued
FetchUserStart(st, p, k) == [p EXCEPT ![k] = @ + 1]

\* fetchUser, from the settled fetch to its end
FetchUserFinish(s, out) ==
    IF Throws(out)
    THEN [s |-> StoreSet(s, [user |-> NULL]), rejected |-> FALSE]
    ELSE IF out.kind = "ok"
    THEN [s |-> StoreSet(s, [user |-> out.data]), rejected |-> FALSE]
    ELSE [s |-> StoreSet(s, [user |-> NULL]), rejected |-> FALSE]

-----------------------------------------------------------------------------
(* Requests in flight                                                      *)

RequestKinds ==
    { "init",          \* GET /api/auth/me issued by initialize
      "fetchPay",      \* GET /api/auth/me issued by fetchUser, App payment effect
      "fetchVer",      \* ... by fetchUser, called by a verifier that is mounted
      "fetchVerGone",  \* ... by fetchUser, called by a verifier unmounted since
      "verify",        \* GET /api/auth/get-current-user, isMounted = true
      "verifyGone",    \* ... isMounted = false
      "logout" }       \* POST /api/auth/logout

NoRequests == [k \in RequestKinds |-> 0]

Inc(p, k) == [p EXCEPT ![k] = @ + 1]

Dec(p, k) == [p EXCEPT ![k] = @ - 1]

InFlight(p) ==
    p["init"] + p["fetchPay"] + p["fetchVer"] + p["fetchVerGone"]
    + p["verify"] + p["verifyGone"] + p["logout"]

\* the verifier effect's cleanup: isMounted = false
Cleanup(p) ==
    [p EXCEPT !["verify"] = 0, !["verifyGone"] = @ + p["verify"],
              !["fetchVer"] = 0, !["fetchVerGone"] = @ + p["fetchVer"]]

-----------------------------------------------------------------------------
(* Routes and what is rendered                                             *)

Routes == {"/", "/login", "/plans", "/jobs"}

\* params.get("payment"): absent, "success", or another value
Searches == {"none", "success", "failure"}

\* the guard wrapped around the route's page
GuardOf(r) ==
    IF r \in {"/plans", "/post", "/post/manual-post", "/post/automate-post"}
    THEN "auth"
    ELSE IF r = "/jobs" THEN "role" ELSE "none"

RequiredRole(r) == "both"

HasLayout(r) == r # "/login"

\* App: if (!initialized) return null; return routes
AppView(st) == IF ~st.initialized THEN "null" ELSE "routes"

\* variant: isLoading is never reported
UseVerifySessionNeverLoading(st) ==
    [isLoggedIn |-> st.user # NULL, isLoading |-> FALSE]

\* useVerifySession's return value
UseVerifySession(st) ==
    [isLoggedIn |-> st.user # NULL, isLoading |-> ~st.initialized]

\* user?.role
UserRole(u) == IF u = NULL THEN "undefined" ELSE u.role

\* variant: a logged-out session falls through to the children
ProtectedViewChildren(st) ==
    LET v == UseVerifySession(st)
    IN  IF v.isLoading THEN "spinner" ELSE "children"

\* what Protected returns
ProtectedView(st) ==
    LET v == UseVerifySession(st)
    IN  IF v.isLoading THEN "spinner"
        ELSE IF ~v.isLoggedIn THEN "null"
        ELSE "children"

\* variant: requiredRole "both" admits every logged-in user
ProtectedRoleViewPermissive(st, requiredRole) ==
    LET v == UseVerifySession(st)
    IN  IF v.isLoading THEN "spinner"
        ELSE IF ~v.isLoggedIn THEN "null"
        ELSE IF requiredRole # "both" /\ UserRole(st.user) # requiredRole THEN "null"
        ELSE "children"

\* variant: any logged-in user is shown the page
ProtectedRoleViewAnyRole(st, requiredRole) ==
    LET v == UseVerifySession(st)
    IN  IF v.isLoading THEN "spinner"
        ELSE IF ~v.isLoggedIn THEN "null"
        ELSE "children"

\* what ProtectedRole returns
ProtectedRoleView(st, requiredRole) ==
    LET v == UseVerifySession(st)
    IN  IF v.isLoading THEN "spinner"
        ELSE IF ~v.isLoggedIn \/ UserRole(st.user) # requiredRole THEN "null"
        ELSE "children"

\* variant: the guard leaves the redirect to the verifier
ProtectedEffectNoRedirect(st) == [nav |-> FALSE, toast |-> FALSE]

\* the redirect effect of Protected
ProtectedEffect(st) ==
    LET v == UseVerifySession(st)
    IN  IF ~v.isLoading /\ ~v.isLoggedIn
        THEN [nav |-> TRUE, toast |-> FALSE]
        ELSE [nav |-> FALSE, toast |-> FALSE]

\* variant: every denial shows the notice
ProtectedRoleEffectAlwaysToast(st, requiredRole) ==
    LET v == UseVerifySession(st)
    IN  IF v.isLoading THEN [nav |-> FALSE, toast |-> FALSE]
        ELSE IF ~v.isLoggedIn \/ UserRole(st.user) # requiredRole
        THEN [nav |-> TRUE, toast |-> TRUE]
        ELSE [nav |-> FALSE, toast |-> FALSE]

\* the redirect effect of ProtectedRole
ProtectedRoleEffect(st, requiredRole) ==
    LET v == UseVerifySession(st)
    IN  IF v.isLoading THEN [nav |-> FALSE, toast |-> FALSE]
        ELSE IF ~v.isLoggedIn THEN [nav |-> TRUE, toast |-> FALSE]
        ELSE IF UserRole(st.user) # requiredRole THEN [nav |-> TRUE, toast |-> TRUE]
        ELSE [nav |-> FALSE, toast |-> FALSE]

GuardView(g, st, r) ==
    IF g = "auth" THEN ProtectedView(st) ELSE ProtectedRoleView(st, RequiredRole(r))

GuardEffect(g, st, r) ==
    IF g = "auth" THEN ProtectedEffect(st) ELSE ProtectedRoleEffect(st, RequiredRole(r))

\* the dependency lists of the guards' redirect effects (navigate apart)
GuardDeps(g, st, r) ==
    IF g = "auth" THEN <<UseVerifySession(st)>>
    ELSE <<UseVerifySession(st), UserRole(st.user), RequiredRole(r)>>

\* a guard component is in the rendered tree
GuardMountedIn(app, st, r) ==
    app /\ AppView(st) = "routes" /\ GuardOf(r) # "none"

GuardMounted == GuardMountedIn(appMounted, StoreState, route)

RoutesRendered == appMounted /\ AppView(StoreState) = "routes"

\* the page wrapped by the guard of the current route is on screen
ChildrenRendered ==
    GuardMounted /\ GuardView(GuardOf(route), StoreState, route) = "children"

-----------------------------------------------------------------------------
(* One render commit: what React does after a handler has changed the      *)
(* store or the location.  h is the state the handler left behind.         *)

\* variant: any payment status refreshes the user
PaymentEffectAnyStatus(q) == q # "none"

\* the body of App's payment effect: does it call fetchUser for this query
PaymentEffect(q) == q = "success"

\* the page components of the session model keep no state of their own
NoPage == [kind |-> "none"]

Commit(app, h) ==
    LET st0  == StoreState
        st1  == [user |-> h.user, initialized |-> h.initialized]
        g    == GuardOf(h.route)
        was  == GuardMountedIn(appMounted, st0, route)
        now  == GuardMountedIn(app, st1, h.route)
        \* the same guard stays mounted and the verifier effect's
        \* dependencies [navigate, fetchUser] are unchanged
        stay == was /\ now /\ h.route = route
        p1   == IF was /\ ~stay THEN Cleanup(h.pending) ELSE h.pending
        \* App's payment effect, dependencies [location.search, fetchUser]
        pay  == app /\ (~appMounted \/ h.search # search) /\ PaymentEffect(h.search)
        p2   == IF pay THEN FetchUserStart(st1, p1, "fetchPay") ELSE p1
        \* the verifier's effect: verifySession()
        p3   == IF now /\ ~stay THEN Inc(p2, "verify") ELSE p2
        \* the guard's redirect effect
        run  == now /\ (~stay \/ GuardDeps(g, st1, h.route) # GuardDeps(g, st0, route))
        eff  == IF run THEN GuardEffect(g, st1, h.route)
                ELSE [nav |-> FALSE, toast |-> FALSE]
        seen == [guard |-> IF now THEN g ELSE "none",
                 guardView |-> IF now THEN GuardView(g, st1, h.route) ELSE "none",
                 guardKept |-> stay,
                 search |-> h.search,
                 fetchCalls |-> IF pay THEN 1 ELSE 0,
                 mounts |-> IF now /\ ~stay THEN 1 ELSE 0]
    IN  IF eff.nav
        THEN [route |-> "/", search |-> "none", pending |-> Cleanup(p3),
              guardNavs |-> 1, toasts |-> IF eff.toast THEN 1 ELSE 0,
              seen |-> seen]
        ELSE [route |-> h.route, search |-> h.search, pending |-> p3,
              guardNavs |-> 0, toasts |-> 0, seen |-> seen]

\* a handler that writes the store and then calls navigate, in a build that
\* renders the store update before the location update: the guard of the old
\* route renders the new store first and its redirect effect runs, its
\* navigate following the handler's; without a redirect the two renders
\* amount to the single commit
CommitSplit(app, h) ==
    LET c1 == Commit(app, [h EXCEPT !.route = route, !.search = search])
    IN  IF c1.guardNavs = 1 THEN c1 ELSE Commit(app, h)

\* the record of a step
Ev(op, kind, out) ==
    [op |-> op,            \* the handler that ran
     kind |-> kind,        \* the kind of the request that settled, if any
     out |-> out,          \* how it settled
     data |-> NULL,        \* the record in the response body
     requests |-> 0,       \* requests the handler issued itself
     navs |-> 0,           \* navigate calls of the handler itself
     guardNavs |-> 0,      \* navigate calls of a guard's redirect effect
     toasts |-> 0,         \* denial notices shown
     rejected |-> FALSE,   \* the handler's promise rejected
     navTo |-> "-",        \* the target of the handler's navigate call
     hadUser |-> FALSE,    \* the store held a user when the handler began
     guard |-> "none",     \* the guard rendered in the commit
     guardView |-> "none", \* what that guard returned
     guardKept |-> FALSE,  \* the guard was mounted before and stayed so
     search |-> "none",    \* the payment parameter the commit rendered
     chain |-> "-",        \* logout, then reload, then App's mount
     fetchCalls |-> 0,     \* fetchUser calls of App's payment effect
     mounts |-> 0]         \* verifier effects run by the commit

\* a handler that left store s, location (r, q) and requests p, then the commit
Handled(s, r, q, p) ==
    [user |-> s.st.user, initialized |-> s.st.initialized,
     route |-> r, search |-> q, pending |-> p]

\* the state after a handler that left store s and a commit that left c
Apply(app, s, c, ev) ==
    /\ InFlight(c.pending) <= MaxInFlight
    /\ user' = s.st.user
    /\ initialized' = s.st.initialized
    /\ localStorage' = s.ls
    /\ appMounted' = app
    /\ route' = c.route
    /\ search' = c.search
    /\ pending' = c.pending
    /\ page' = page
    /\ last' = [ev EXCEPT !.guardNavs = c.guardNavs, !.toasts = c.toasts,
                          !.hadUser = (user # NULL),
                          !.guard = c.seen.guard,
                          !.guardView = c.seen.guardView,
                          !.guardKept = c.seen.guardKept,
                          !.search = c.seen.search,
                          !.fetchCalls = c.seen.fetchCalls,
                          !.mounts = c.seen.mounts]

Step(app, s, r, q, p, ev) ==
    \E c \in {Commit(app, Handled(s, r, q, p))} : Apply(app, s, c, ev)

\* a handler that wrote the store and then called navigate: whether React
\* renders the two updates together depends on the lanes the build gives them
StepSplit(app, s, r, q, p, ev, batched) ==
    \E c \in {IF batched THEN Commit(app, Handled(s, r, q, p))
                ELSE CommitSplit(app, Handled(s, r, q, p))} :
        Apply(app, s, c, ev)

-----------------------------------------------------------------------------
(* Actions                                                                 *)

LegacyUser == [id |-> "u1", role |-> "employee", plan |-> "standard"]

\* what local storage may hold when the page is opened
InitialStorages ==
    { [k \in Keys |-> IF k = StorageKey THEN a ELSE b] :
        a \in {<<>>} \cup {StringifyStorageValue([user |-> u]) : u \in Users \cup {NULL}},
        b \in {<<>>, StringifyUser(LegacyUser)} }

Init ==
    /\ localStorage \in InitialStorages
    /\ user = Hydrate(localStorage).user
    /\ initialized = Hydrate(localStorage).initialized
    /\ appMounted = FALSE
    /\ route \in Routes
    /\ search \in Searches
    /\ pending = NoRequests
    /\ last = Ev("open", "-", "-")
    /\ page = NoPage

\* App's first render: useAuth's effect calls initialize()
AppMount ==
    /\ ~appMounted
    /\ LET i == InitializeStart(Store)
       IN  Step(TRUE, i.s, route, search,
                IF i.request THEN Inc(pending, "init") ELSE pending,
                [Ev("initialize", "-", "-") EXCEPT
                    !.requests = IF i.request THEN 1 ELSE 0,
                    !.chain = IF last.chain = "reload" THEN "mount" ELSE "-"])

\* the request of initialize settles
InitializeResolve(out) ==
    /\ pending["init"] > 0
    /\ LET f == InitializeFinish(Store, out)
       IN  Step(appMounted, f.s, route, search, Dec(pending, "init"),
                [Ev("initializeDone", "init", out.kind) EXCEPT
                    !.data = out.data, !.rejected = f.rejected])

\* the request of a fetchUser settles
FetchUserResolve(k, out) ==
    /\ pending[k] > 0
    /\ LET f == FetchUserFinish(Store, out)
       IN  Step(appMounted, f.s, route, search, Dec(pending, k),
                [Ev("fetchUserDone", k, out.kind) EXCEPT
                    !.data = out.data, !.rejected = f.rejected])

\* variant: a failed verification redirects without clearing the store
VerifySessionNoClear(isMounted, out, s) ==
    IF ~isMounted THEN [s |-> s, fetchUser |-> FALSE, nav |-> FALSE]
    ELSE IF out = "ok" THEN [s |-> s, fetchUser |-> TRUE, nav |-> FALSE]
    ELSE [s |-> s, fetchUser |-> FALSE, nav |-> TRUE]

\* variant: a failed verification is ignored
VerifySessionIgnoresFailure(isMounted, out, s) ==
    IF ~isMounted THEN [s |-> s, fetchUser |-> FALSE, nav |-> FALSE]
    ELSE IF out = "ok" THEN [s |-> s, fetchUser |-> TRUE, nav |-> FALSE]
    ELSE [s |-> s, fetchUser |-> FALSE, nav |-> FALSE]

\* verifySession after its fetch has settled
VerifySession(isMounted, out, s) ==
    IF ~isMounted THEN [s |-> s, fetchUser |-> FALSE, nav |-> FALSE]
    ELSE IF out = "ok" THEN [s |-> s, fetchUser |-> TRUE, nav |-> FALSE]
    ELSE [s |-> ClearUser(s), fetchUser |-> FALSE, nav |-> TRUE]

\* the request of a verifier settles
VerifyResolve(k, out, batched) ==
    /\ pending[k] > 0
    /\ LET v  == VerifySession(k = "verify", out, Store)
           p1 == Dec(pending, k)
           p2 == IF v.fetchUser
                 THEN FetchUserStart(v.s.st, p1,
                          IF k = "verify" THEN "fetchVer" ELSE "fetchVerGone")
                 ELSE p1
       IN  StepSplit(appMounted, v.s,
                IF v.nav THEN "/" ELSE route,
                IF v.nav THEN "none" ELSE search,
                p2,
                [Ev("verifyDone", k, out) EXCEPT
                    !.requests = IF v.fetchUser THEN 1 ELSE 0,
                    !.navs = IF v.nav THEN 1 ELSE 0,
                    !.navTo = IF v.nav THEN "/" ELSE "-"],
                batched \/ ~v.nav)

\* a link, the address bar or the history buttons change the location
UserNavigate(r, q) ==
    /\ appMounted
    /\ <<r, q>> # <<route, search>>
    /\ Step(appMounted, Store, r, q, pending, Ev("navigate", "-", "-"))

\* a component under the routes calls useAuth().setUser
UseAuthSetUser(u) ==
    /\ RoutesRendered
    /\ Step(appMounted, SetUser(Store, u), route, search, pending,
            Ev("setUser", "-", "-"))

\* Header: the logout entry of the user menu
LogoutClick ==
    /\ RoutesRendered
    /\ HasLayout(route)
    /\ user # NULL
    /\ Step(appMounted, Store, route, search, Inc(pending, "logout"),
            [Ev("logout", "-", "-") EXCEPT !.requests = 1])

\* variant: only the legacy key is removed
HandleLogoutFinallyLegacyOnly(s) == [s EXCEPT !.ls[LegacyKey] = <<>>]

\* handleLogout's finally block
HandleLogoutFinally(s) ==
    SetUser([s EXCEPT !.ls[LegacyKey] = <<>>], NULL)

\* variant: the local logout follows the try block instead of a finally
HandleLogoutNoFinally(out, s) ==
    IF out = "error" THEN [s |-> s, nav |-> FALSE]
    ELSE [s |-> HandleLogoutFinally(s), nav |-> TRUE]

\* handleLogout after its fetch has settled: try, catch, finally
HandleLogout(out, s) == [s |-> HandleLogoutFinally(s), nav |-> TRUE]

\* the logout request settles
LogoutResolve(out, batched) ==
    /\ pending["logout"] > 0
    /\ LET l == HandleLogout(out, Store)
       IN  StepSplit(appMounted, l.s,
                IF l.nav THEN "/login" ELSE route,
                IF l.nav THEN "none" ELSE search,
                Dec(pending, "logout"),
                [Ev("logoutDone", "logout", out) EXCEPT
                    !.navs = IF l.nav THEN 1 ELSE 0,
                    !.navTo = IF l.nav THEN "/login" ELSE "-",
                    !.chain = "logout"],
                batched \/ ~l.nav)

\* the page is reloaded: the store is created anew and hydrated; what the
\* old page had in flight is dropped.  Some versions of persist write the
\* hydrated state back to storage, others do not.
Reload(writeBack) ==
    /\ appMounted
    /\ \E st \in {Hydrate(localStorage)} :
           /\ user' = st.user
           /\ initialized' = st.initialized
           /\ localStorage' = IF writeBack THEN SetItem(localStorage, st)
                              ELSE localStorage
    /\ appMounted' = FALSE
    /\ UNCHANGED <<route, search, page>>
    /\ pending' = NoRequests
    /\ last' = [Ev("reload", "-", "-") EXCEPT
                   !.chain = IF last.chain = "logout" THEN "reload" ELSE "-"]

Next ==
    \/ AppMount
    \/ \E out \in BodyOutcomes : InitializeResolve(out)
    \/ \E k \in {"fetchPay", "fetchVer", "fetchVerGone"}, out \in BodyOutcomes :
          FetchUserResolve(k, out)
    \/ \E k \in {"verify", "verifyGone"}, out \in StatusOutcomes, batched \in BOOLEAN :
          VerifyResolve(k, out, batched)
    \/ \E r \in Routes, q \in Searches : UserNavigate(r, q)
    \/ \E u \in Users \cup {NULL} : UseAuthSetUser(u)
    \/ LogoutClick
    \/ \E out \in StatusOutcomes, batched \in BOOLEAN : LogoutResolve(out, batched)
    \/ \E writeBack \in BOOLEAN : Reload(writeBack)

Spec == Init /\ [][Next]_vars

TypeOK ==
    /\ user \in Users \cup {NULL}
    /\ initialized \in BOOLEAN
    /\ appMounted \in BOOLEAN
    /\ route \in Routes
    /\ search \in Searches
    /\ \A k \in RequestKinds : pending[k] \in 0..MaxInFlight

-----------------------------------------------------------------------------
(* Properties                                                              *)

PersistedText == localStorage[StorageKey]

\* C1: an initialize() call made while the store holds a user issues no
\* request, sets initialized and leaves the user as it was hydrated.
C1_InitializeWithUser ==
    [][(last'.op = "initialize" /\ user # NULL)
        => /\ last'.requests = 0
           /\ pending'["init"] = pending["init"]
           /\ initialized'
           /\ user' = user
           /\ user' = Hydrate(localStorage).user]_vars

C1_Witness ==
    /\ last.op = "initialize"
    /\ last.requests = 0
    /\ user # NULL
    /\ initialized

FailedOutcome == {"status", "error", "badjson"}

\* C2 as stated: every failed current-user request, of initialize or of
\* fetchUser, leaves user = null and initialized = true.
C2_FailedRequestInitialized ==
    (last.op \in {"initializeDone", "fetchUserDone"} /\ last.out \in FailedOutcome)
        => (user = NULL /\ initialized)

\* C2 amended: a failed request of initialize leaves user = null and
\* initialized = true; a failed request of fetchUser leaves user = null and
\* initialized as it was.
C2_FailedRequest ==
    [][/\ (last'.op = "initializeDone" /\ last'.out \in FailedOutcome)
           => (user' = NULL /\ initialized')
       /\ (last'.op = "fetchUserDone" /\ last'.out \in FailedOutcome)
           => (user' = NULL /\ initialized' = initialized)]_vars

C2_Witness ==
    /\ last.op = "fetchUserDone"
    /\ last.out = "error"
    /\ user = NULL
    /\ ~initialized

\* C3: initialize() with no user issues one request; when it settles the
\* call has not rejected, initialized is true, and the user is the returned
\* record on success and null otherwise.
C3_InitializeWithoutUser ==
    [][/\ (last'.op = "initialize" /\ user = NULL)
           => /\ last'.requests = 1
              /\ pending'["init"] = pending["init"] + 1
              /\ initialized' = initialized
              /\ user' = NULL
       /\ last'.op = "initializeDone"
           => /\ pending'["init"] = pending["init"] - 1
              /\ ~last'.rejected
              /\ initialized'
              /\ user' = IF last'.out = "ok" THEN last'.data ELSE NULL]_vars

C3_Witness ==
    /\ last.op = "initializeDone"
    /\ last.out = "badjson"
    /\ initialized
    /\ user = NULL

\* C4: the children of a guard are rendered only when initialized is true:
\* on screen, and by either guard component taken on its own.
C4_NoContentBeforeInitialized ==
    /\ ChildrenRendered => initialized
    /\ ProtectedView(StoreState) = "children" => initialized
    /\ \A r \in Roles : ProtectedRoleView(StoreState, r) = "children" => initialized

C4_Witness ==
    /\ appMounted
    /\ ~initialized
    /\ user # NULL
    /\ UserRole(user) = RequiredRole(route)
    /\ GuardOf(route) = "role"
    /\ ProtectedRoleView(StoreState, RequiredRole(route)) = "spinner"

\* C5: within a page load initialized never goes back to false, and it
\* becomes true only in initialize: at the call when a hydrated user is
\* found, or when the request of initialize has settled.
C5_InitializedOnce ==
    [][/\ (initialized /\ ~initialized') => last'.op = "reload"
       /\ (~initialized /\ initialized')
           => \/ (last'.op = "initialize" /\ user # NULL
                    /\ user = Hydrate(localStorage).user)
              \/ last'.op = "initializeDone"]_vars

C5_Witness ==
    /\ last.op = "verifyDone"
    /\ last.kind = "verify"
    /\ last.out = "status"
    /\ user = NULL
    /\ initialized

\* C6: after setUser, a successful initialize or a successful fetchUser has
\* set a non-null user, the persisted key holds the serialization of that user.
C6_UserPersisted ==
    (last.op \in {"setUser", "initializeDone", "fetchUserDone"} /\ user # NULL)
        => /\ PersistedText # <<>>
           /\ JSONParse(PersistedText).state = [user |-> user]
           /\ PersistedText = <<"{", "state", "{", "user">> \o StringifyUser(user)
                                \o <<"}", "version", "0", "}">>

C6_Witness ==
    /\ last.op = "fetchUserDone"
    /\ last.out = "ok"
    /\ user # NULL
    /\ JSONParse(PersistedText).state.user = user

\* the step just taken set the store's user to null
ClearedUser ==
    \/ last.op = "setUser" /\ user = NULL
    \/ last.op \in {"initializeDone", "fetchUserDone"} /\ last.out \in FailedOutcome
    \/ last.op = "verifyDone" /\ last.kind = "verify" /\ last.out # "ok"
    \/ last.op = "logoutDone"

\* C7 as stated: after an operation that sets the user to null the
\* persisted key is absent.
C7_KeyRemoved == ClearedUser => PersistedText = <<>>

\* C7 amended: after an operation that sets the user to null the persisted
\* key is still present and holds the serialization of a null user.
C7_NullUserPersisted ==
    ClearedUser
        => /\ user = NULL
           /\ PersistedText # <<>>
           /\ JSONParse(PersistedText).state = [user |-> NULL]

C7_Witness ==
    /\ last.op = "verifyDone"
    /\ last.kind = "verify"
    /\ last.out = "error"
    /\ user = NULL
    /\ PersistedText = <<"{", "state", "{", "user", "null", "}", "version", "0", "}">>

\* C8: initialized is never written to storage, and a reload starts with
\* initialized = false and the user the store held before it.
C8_InitializedNotPersisted ==
    [][/\ PersistedText' # <<>>
           => "initialized" \notin DOMAIN JSONParse(PersistedText').state
       /\ last'.op = "reload" => (~initialized' /\ user' = user)]_vars

C8_Witness ==
    /\ last.op = "reload"
    /\ ~initialized
    /\ user # NULL
    /\ "initialized" \notin DOMAIN JSONParse(PersistedText).state

\* C9: when the verify request settles with the verifier mounted, success
\* starts exactly one fetchUser and the verifier neither redirects nor
\* writes; failure sets user to null and navigates to "/".
C9_VerifyWhileMounted ==
    [][(last'.op = "verifyDone" /\ last'.kind = "verify")
        => IF last'.out = "ok"
           THEN /\ last'.requests = 1
                /\ pending' = Inc(Dec(pending, "verify"), "fetchVer")
                /\ last'.navs = 0
                /\ route' = route
                /\ user' = user
           ELSE /\ user' = NULL
                /\ last'.navs = 1
                /\ last'.requests = 0
                /\ route' = "/"]_vars

C9_Witness ==
    /\ last.op = "verifyDone"
    /\ last.kind = "verify"
    /\ last.out = "ok"
    /\ last.requests = 1
    /\ pending["fetchVer"] > 0
    /\ ChildrenRendered

\* C10 as stated: once the verifier is unmounted, the settling of its verify
\* request or of the fetchUser it started writes nothing to the store and
\* navigates nowhere.
C10_NothingAfterUnmount ==
    [][(last'.kind \in {"verifyGone", "fetchVerGone"})
        => /\ UNCHANGED <<user, initialized, localStorage, route, search>>
           /\ last'.navs = 0]_vars

-----------------------------------------------------------------------------
(* Guards                                                                  *)

\* every record of interface User, whatever the server holds
AllUsers == [id : {"u1"}, role : Roles, plan : Plans]

\* a store that App lets the routes render with
Settled(u) == [user |-> u, initialized |-> TRUE]

\* C11: an authentication guard rendered with a settled store and no user
\* returns nothing and its effect navigates to "/"; rendered with a user it
\* returns its children and does not navigate.
C11_AuthGuard ==
    /\ \A u \in AllUsers \cup {NULL} :
          /\ ProtectedView(Settled(u)) = IF u = NULL THEN "null" ELSE "children"
          /\ ProtectedEffect(Settled(u)).nav = (u = NULL)
    /\ last.guard = "auth"
         => IF user = NULL
            THEN /\ last.guardView = "null"
                 /\ last.guardNavs = 1
                 /\ route = "/"
                 /\ ~ChildrenRendered
            ELSE /\ last.guardView = "children"
                 /\ last.guardNavs = 0
                 /\ ChildrenRendered

C11_Witness ==
    /\ last.guard = "auth"
    /\ last.op = "fetchUserDone"
    /\ last.hadUser
    /\ user = NULL
    /\ last.guardView = "null"
    /\ last.guardNavs = 1
    /\ route = "/"

\* C12 as stated: while the verification request of a mounted guard is
\* pending the guard returns the loading indicator, so the children are on
\* screen only when no verification of the mounted guard is pending.
C12_LoadingWhilePending ==
    (GuardMounted /\ pending["verify"] > 0)
        => /\ GuardView(GuardOf(route), StoreState, route) = "spinner"
           /\ ~ChildrenRendered

\* C13: a role guard grants exactly when the user's role is requiredRole:
\* under requiredRole "both" an employer or employee is denied, shown the
\* denial notice and sent to "/", and a user of role "both" is granted.
C13_RoleGuardExact ==
    /\ \A u \in AllUsers, r \in Roles :
          /\ ProtectedRoleView(Settled(u), r) = "children" <=> u.role = r
          /\ ProtectedRoleEffect(Settled(u), r)
                = [nav |-> u.role # r, toast |-> u.role # r]
    /\ (last.guard = "role" /\ user # NULL)
         => IF user.role = RequiredRole("/jobs")
            THEN /\ last.guardView = "children"
                 /\ last.guardNavs = 0
                 /\ last.toasts = 0
                 /\ ChildrenRendered
            ELSE /\ last.guardView = "null"
                 /\ last.toasts = 1
                 /\ last.guardNavs = 1
                 /\ route = "/"

C13_Witness ==
    /\ last.guard = "role"
    /\ user # NULL
    /\ user.role = "employee"
    /\ last.guardView = "null"
    /\ last.toasts = 1
    /\ last.guardNavs = 1
    /\ route = "/"

\* C14 as stated: a mounted guard that renders its children never later
\* renders anything else, and a guard that has denied never renders children.
C14_GrantedTerminal ==
    [][/\ (ChildrenRendered /\ last'.guardKept) => last'.guardView = "children"
       /\ last'.guardView = "null" => ~ChildrenRendered']_vars

\* C14: a mounted guard that renders its children never goes back to the
\* loading indicator; it denies later only when the store's user has
\* changed, and a guard that denies redirects and is unmounted by that
\* commit, so it never renders children.
C14_GuardStates ==
    [][/\ (ChildrenRendered /\ last'.guardKept)
            => /\ last'.guardView \in {"children", "null"}
               /\ last'.guardView = "null" => user' # user
       /\ last'.guardView = "null"
            => /\ last'.guardNavs = 1
               /\ ~GuardMounted'
               /\ ~ChildrenRendered']_vars

C14_Witness ==
    /\ last.guardKept
    /\ last.hadUser
    /\ last.op = "fetchUserDone"
    /\ last.guardView = "null"
    /\ last.guardNavs = 1
    /\ ~GuardMounted

\* C15 as stated: a denial, by a guard that renders nothing or by the
\* verifier of a mounted guard whose request failed, issues one navigate
\* call, the guard's effect and the verifier counted together.
C15_OneRedirectPerDenial ==
    LET verifierNavs == IF last.op = "verifyDone" THEN last.navs ELSE 0
        denial == \/ last.guardView = "null"
                  \/ (last.op = "verifyDone" /\ last.kind = "verify"
                        /\ last.out # "ok")
    IN  denial => verifierNavs + last.guardNavs = 1

-----------------------------------------------------------------------------
(* Concurrent session operations                                           *)

MeKinds == {"init", "fetchPay", "fetchVer", "fetchVerGone"}

VerifyKinds == {"verify", "verifyGone"}

\* requests to /api/auth/me in flight
MeInFlight(p) == p["init"] + p["fetchPay"] + p["fetchVer"] + p["fetchVerGone"]

\* requests to /api/auth/get-current-user in flight
VerifyInFlight(p) == p["verify"] + p["verifyGone"]

\* C16: each response of initialize and of fetchUser writes its own result
\* whatever the store holds, so of two concurrent requests the one that
\* settles last decides the user: a failure that settles last leaves null
\* where the other request had stored a user.
C16_LastWriteWins ==
    [][(last'.op \in {"initializeDone", "fetchUserDone"})
        => /\ user' = IF last'.out = "ok" THEN last'.data ELSE NULL
           /\ (user # NULL /\ last'.out # "ok") => user' = NULL
           /\ (user # NULL /\ last'.out = "ok") => user' = last'.data]_vars

C16_Witness ==
    /\ last.op = "initializeDone"
    /\ last.out = "status"
    /\ last.hadUser
    /\ user = NULL
    /\ initialized

\* C17: every fetchUser call, by App's payment effect or by a mounted
\* verifier, issues a request whether or not a user is present or
\* initialized is set; its response stores the returned record on success
\* and null otherwise, and leaves initialized as it was.
C17_FetchUserAlways ==
    [][/\ last'.fetchCalls = 1 => pending'["fetchPay"] = pending["fetchPay"] + 1
       /\ (last'.op = "initialize" /\ search = "success")
            => /\ last'.fetchCalls = 1
               /\ pending'["fetchPay"] = 1
       /\ (last'.op = "verifyDone" /\ last'.kind = "verify" /\ last'.out = "ok")
            => /\ user # NULL
               /\ initialized
               /\ pending'["fetchVer"] = pending["fetchVer"] + 1
       /\ last'.op = "fetchUserDone"
            => /\ user' = IF last'.out = "ok" THEN last'.data ELSE NULL
               /\ initialized' = initialized
               /\ MeInFlight(pending') = MeInFlight(pending) - 1]_vars

C17_Witness ==
    /\ last.op = "initialize"
    /\ last.hadUser
    /\ initialized
    /\ last.requests = 0
    /\ last.fetchCalls = 1
    /\ pending["fetchPay"] = 1

C19_MismatchVersusNoSession ==
    [][(last'.guard = "role" /\ last'.guardView = "null")
        => /\ last'.guardNavs = 1
           /\ route' = "/"
           /\ IF user' = NULL
              THEN last'.toasts = 0
              ELSE /\ last'.toasts = 1
                   /\ user'.role # RequiredRole("/jobs")
                   /\ PersistedText' = StringifyStorageValue([user |-> user'])
                   /\ last'.op = "navigate"
                        => UNCHANGED <<user, initialized, localStorage>>]_vars

C19_Witness ==
    /\ last.op = "navigate"
    /\ last.guard = "role"
    /\ last.guardView = "null"
    /\ last.toasts = 1
    /\ last.hadUser
    /\ user # NULL
    /\ route = "/"

\* C20: every initialize call without a user, every fetchUser call and every
\* verifier mount adds one request of its own to those in flight, also when
\* requests to the same endpoint are in flight already, and the settling of
\* a failed request adds none.
C20_NoCoalescingNoRetry ==
    [][last'.op # "reload"
        => /\ MeInFlight(pending')
                = MeInFlight(pending)
                  - (IF last'.kind \in MeKinds THEN 1 ELSE 0)
                  + last'.fetchCalls
                  + (IF last'.op \in {"initialize", "verifyDone"}
                     THEN last'.requests ELSE 0)
           /\ VerifyInFlight(pending')
                = VerifyInFlight(pending)
                  - (IF last'.kind \in VerifyKinds THEN 1 ELSE 0)
                  + last'.mounts
           /\ (last'.op = "initialize" /\ ~last'.hadUser) => last'.requests = 1
           /\ (last'.kind \in MeKinds /\ last'.out # "ok")
                => MeInFlight(pending') = MeInFlight(pending) - 1
           /\ (last'.kind \in VerifyKinds /\ last'.out # "ok")
                => /\ VerifyInFlight(pending') = VerifyInFlight(pending) - 1
                   /\ MeInFlight(pending') = MeInFlight(pending)]_vars

C20_Witness ==
    /\ last.op = "navigate"
    /\ last.fetchCalls = 1
    /\ pending["fetchPay"] >= 2
    /\ pending["init"] = 1

-----------------------------------------------------------------------------
(* Payment return, frame of the setters, stale sessions, logout and reload *)

\* C21: App's payment effect calls fetchUser, which issues a request, when
\* App mounts or location.search changes and the payment parameter is
\* "success"; for another value or none it calls nothing, and a response
\* that succeeds stores the server's record.
C21_PaymentEffect ==
    [][last'.op # "reload"
        => /\ last'.fetchCalls = 1
                <=> /\ last'.search = "success"
                    /\ (~appMounted \/ search # "success")
           /\ last'.search # "success" => last'.fetchCalls = 0
           /\ pending'["fetchPay"]
                = pending["fetchPay"] + last'.fetchCalls
                  - (IF last'.kind = "fetchPay" THEN 1 ELSE 0)
           /\ (last'.kind = "fetchPay" /\ last'.out = "ok")
                => /\ user' = last'.data
                   /\ PersistedText' = StringifyStorageValue([user |-> last'.data])]_vars

C21_Witness ==
    /\ last.op = "fetchUserDone"
    /\ last.kind = "fetchPay"
    /\ last.out = "ok"
    /\ last.hadUser
    /\ user = last.data
    /\ user.plan = "premium"

\* C26: setUser, clearUser and the completion of fetchUser leave initialized
\* as it was, whatever the store holds; a fetchUser that completes while
\* initialized is false leaves it false.
C26_InitializedFrame ==
    /\ [](\A i \in BOOLEAN :
            LET s == [st |-> [user |-> user, initialized |-> i], ls |-> localStorage]
            IN  /\ ClearUser(s).st.initialized = i
                /\ \A u \in Users \cup {NULL} : SetUser(s, u).st.initialized = i
                /\ \A out \in BodyOutcomes :
                      FetchUserFinish(s, out).s.st.initialized = i)
    /\ [][/\ (last'.op \in {"fetchUserDone", "setUser", "verifyDone", "logoutDone"})
               => (initialized' = initialized)
          /\ (last'.op = "fetchUserDone" /\ ~initialized) => ~initialized']_vars

C26_Witness ==
    /\ last.op = "fetchUserDone"
    /\ last.out = "ok"
    /\ user # NULL
    /\ ~initialized
    /\ pending["init"] = 1

\* C27: when the verify request of a mounted guard settles with a
\* non-success status or an error, the store's user is null and the guard
\* renders no children from then on, also when the guard had granted on a
\* user hydrated from storage.
C27_StaleSessionRevoked ==
    [][(last'.op = "verifyDone" /\ last'.kind = "verify" /\ last'.out # "ok")
        => /\ ChildrenRendered
           /\ user' = NULL
           /\ Hydrate(localStorage').user = NULL
           /\ ~ChildrenRendered'
           /\ ~GuardMounted']_vars

C27_Witness ==
    /\ last.op = "verifyDone"
    /\ last.kind = "verify"
    /\ last.out = "status"
    /\ last.hadUser
    /\ user = NULL
    /\ ~ChildrenRendered

\* C28: the page behind a role guard with requiredRole "both" is on screen
\* only while the store's user has role "both"; a store update that leaves
\* another role or no user makes the guard render nothing.
C28_RolePagesOnlyForBoth ==
    /\ (ChildrenRendered /\ GuardOf(route) = "role")
         => (user # NULL /\ user.role = "both")
    /\ (last.guard = "role" /\ (user = NULL \/ user.role # "both"))
         => /\ last.guardView = "null"
            /\ ~ChildrenRendered

C28_Witness ==
    /\ last.op = "fetchUserDone"
    /\ last.guard = "role"
    /\ last.guardKept
    /\ user # NULL
    /\ user.role = "employee"
    /\ last.guardView = "null"
    /\ ~ChildrenRendered

\* C29: a completed logout leaves a persisted state without a user, a
\* reload that follows it hydrates no user, and the initialize of the
\* App mount that follows issues its request.
C29_LogoutThenReload ==
    /\ last.chain = "logout" => Hydrate(localStorage).user = NULL
    /\ last.chain = "reload" => (user = NULL /\ ~initialized)
    /\ last.chain = "mount"
         => /\ last.requests = 1
            /\ pending["init"] = 1
            /\ ~initialized

C29_Witness ==
    /\ last.chain = "mount"
    /\ last.requests = 1
    /\ pending["init"] = 1
    /\ user = NULL

-----------------------------------------------------------------------------
(* The job posting pages under /post, behind the authentication guard.     *)
(* page holds the browser history (its last entry is the location), what   *)
(* AIJobPosting returned in the last commit and whether its effect ran.    *)

PostPaths == {"/post", "/post/manual-post", "/post/automate-post"}

PostLocations == PostPaths \cup {"/"}

\* PostJobMain: showAIOption, the card that links to /post/automate-post
ShowAIOption(u) == u # NULL /\ u.plan = "premium"

\* variant: the page is shown to every logged-in user
AIJobPostingViewLoggedIn(u) == IF u = NULL THEN "redirecting" ELSE "content"

\* what AIJobPosting returns
AIJobPostingView(u) ==
    IF u = NULL \/ u.plan = "standard" THEN "redirecting" ELSE "content"

\* AIJobPosting's effect: does it navigate to /post/manual-post, replacing
AIJobPostingEffect(u) == u = NULL \/ u.plan = "standard"

\* the render commit of a location under the guard: u is the store's user,
\* h the history the handler left
PostCommit(u, h) ==
    LET r == h[Len(h)]
        g == IF r \in PostPaths THEN ProtectedView(Settled(u)) ELSE "children"
    IN  IF g # "children"
        THEN [history |-> IF ProtectedEffect(Settled(u)).nav
                          THEN Append(h, "/") ELSE h,
              view |-> "none", replaced |-> 0,
              guardNavs |-> IF ProtectedEffect(Settled(u)).nav THEN 1 ELSE 0]
        ELSE IF r = "/post/automate-post"
        THEN [history |-> IF AIJobPostingEffect(u)
                          THEN [h EXCEPT ![Len(h)] = "/post/manual-post"]
                          ELSE h,
              view |-> AIJobPostingView(u),
              replaced |-> IF AIJobPostingEffect(u) THEN 1 ELSE 0,
              guardNavs |-> 0]
        ELSE [history |-> h, view |-> "none", replaced |-> 0, guardNavs |-> 0]

PostStep(s, h, ev) ==
    \E c \in {PostCommit(s.st.user, h)} :
        /\ user' = s.st.user
        /\ initialized' = s.st.initialized
        /\ localStorage' = s.ls
        /\ route' = c.history[Len(c.history)]
        /\ page' = [kind |-> "post", history |-> c.history, view |-> c.view,
                    replaced |-> c.replaced]
        /\ last' = [ev EXCEPT !.hadUser = (user # NULL),
                              !.guardNavs = c.guardNavs]
        /\ UNCHANGED <<appMounted, search, pending>>

\* the App is mounted and initialized, with or without a user, at "/"
InitPost ==
    /\ user \in Users \cup {NULL}
    /\ initialized = TRUE
    /\ localStorage = SetItem([k \in Keys |-> <<>>], StoreState)
    /\ appMounted = TRUE
    /\ route = "/"
    /\ search = "none"
    /\ pending = NoRequests
    /\ last = Ev("open", "-", "-")
    /\ page = [kind |-> "post", history |-> <<"/">>, view |-> "none",
               replaced |-> 0]

\* a link or the address bar pushes a location
PostNavigate(r) ==
    /\ Len(page.history) < MaxHistory
    /\ r # route
    /\ PostStep(Store, Append(page.history, r), Ev("navigate", "-", "-"))

\* the browser's back button
PostBack ==
    /\ Len(page.history) > 1
    /\ PostStep(Store, SubSeq(page.history, 1, Len(page.history) - 1),
                Ev("back", "-", "-"))

\* the response of a fetchUser arrives while these pages are open
PostFetchUserDone(out) ==
    PostStep(FetchUserFinish(Store, out).s, page.history,
             [Ev("fetchUserDone", "fetchVer", out.kind) EXCEPT !.data = out.data])

NextPost ==
    \/ \E r \in PostLocations : PostNavigate(r)
    \/ PostBack
    \/ \E out \in BodyOutcomes : PostFetchUserDone(out)

SpecPost == InitPost /\ [][NextPost]_vars

\* C22: AIJobPosting returns its content only for a user whose plan is
\* "premium"; for no user or a "standard" user it returns the redirecting
\* indicator and its effect navigates to /post/manual-post, replacing the
\* history entry, so the location stays /post/automate-post for a premium
\* user only.
C22_AIPostingPremiumOnly ==
    /\ [](/\ \A u \in AllUsers \cup {NULL} :
               /\ AIJobPostingView(u) = "content"
                    <=> (u # NULL /\ u.plan = "premium")
               /\ AIJobPostingView(u) \in {"content", "redirecting"}
               /\ AIJobPostingEffect(u) <=> AIJobPostingView(u) = "redirecting"
               /\ ShowAIOption(u) <=> AIJobPostingView(u) = "content"
          /\ page.view = "content"
               => /\ user # NULL
                  /\ user.plan = "premium"
                  /\ route = "/post/automate-post"
                  /\ page.replaced = 0
          /\ page.view = "redirecting"
               => /\ user # NULL
                  /\ user.plan = "standard"
                  /\ page.replaced = 1
                  /\ route = "/post/manual-post"
          /\ route = "/post/automate-post" => page.view = "content")
    /\ [][page'.replaced = 1
            => Len(page'.history)
                 = Len(page.history)
                   + (IF last'.op = "navigate" THEN 1
                      ELSE IF last'.op = "back" THEN -1 ELSE 0)]_vars

C22_Witness ==
    /\ last.op = "navigate"
    /\ user # NULL
    /\ user.plan = "standard"
    /\ page.view = "redirecting"
    /\ page.replaced = 1
    /\ route = "/post/manual-post"
    /\ Len(page.history) = 2

-----------------------------------------------------------------------------
(* The pricing cards of /plans, behind the authentication guard.  page     *)
(* holds, per card, the plan prop, the state of the mounted instance's     *)
(* mutation, and the initiation requests in flight: those of the mounted   *)
(* instance (cur) and those of instances unmounted since (old).            *)

Cards == {"standard", "premium"}

\* the plan prop: a Plan object or undefined
PlanProps == {"plan", "undefined"}

\* outcomes of POST /api/payment/initiate: a body with url and parameters,
\* a success body that lacks one of them, a non-success status or rejection
InitiateOutcomes == {"complete", "partial", "error"}

\* user?.plan
UserPlan(u) == IF u = NULL THEN "undefined" ELSE u.plan

\* variant: each card is disabled by its own plan only
IsDisabledOwnPlan(c, u) == UserPlan(u) = c

\* isDisabled of the two cards
IsDisabled(c, u) ==
    IF c = "standard"
    THEN UserPlan(u) = "standard" \/ UserPlan(u) = "premium"
    ELSE UserPlan(u) = "premium"

\* variant: a pending mutation does not disable the button
ButtonDisabledNotPending(c, u, isPending) == IsDisabled(c, u)

\* the button's disabled attribute
ButtonDisabled(c, u, isPending) == isPending \/ IsDisabled(c, u)

\* handlePayment: the toast it shows, or the mutate call
HandlePayment(c, u, plan) ==
    IF IsDisabled(c, u) THEN "alreadyHavePlan"
    ELSE IF u = NULL THEN "loginRequired"
    ELSE IF plan = "undefined" THEN "planUnavailable"
    ELSE "mutate"

\* onSuccess / onError of the mutation: is the gateway form submitted
OnSettled(out) ==
    IF out = "complete" THEN [submit |-> TRUE, toast |-> "redirecting"]
    ELSE IF out = "partial" THEN [submit |-> FALSE, toast |-> "paymentDataError"]
    ELSE [submit |-> FALSE, toast |-> "error"]

NoCards == [c \in Cards |-> 0]

FreshCards == [c \in Cards |-> FALSE]

\* a logged-in user has opened /plans
InitPricing ==
    /\ user \in Users
    /\ initialized = TRUE
    /\ localStorage = SetItem([k \in Keys |-> <<>>], StoreState)
    /\ appMounted = TRUE
    /\ route = "/plans"
    /\ search = "none"
    /\ pending = NoRequests
    /\ last = Ev("open", "-", "-")
    /\ \E pl \in [Cards -> PlanProps] :
          page = [kind |-> "pricing", plan |-> pl, isPending |-> FreshCards,
                  cur |-> NoCards, old |-> NoCards, submits |-> 0,
                  left |-> FALSE, toast |-> "-", card |-> "-"]

CardsMounted == route = "/plans" /\ ProtectedView(StoreState) = "children"

\* a click on an enabled button runs handlePayment
CardClick(c) ==
    /\ CardsMounted
    /\ ~page.left
    /\ ~ButtonDisabled(c, user, page.isPending[c])
    /\ page.cur[c] + page.old[c] < MaxInitiations
    /\ LET h == HandlePayment(c, user, page.plan[c])
       IN  /\ page' = IF h = "mutate"
                      THEN [page EXCEPT !.isPending[c] = TRUE, !.cur[c] = @ + 1,
                                        !.toast = "-", !.card = c]
                      ELSE [page EXCEPT !.toast = h, !.card = c]
           /\ last' = [Ev("click", "-", "-") EXCEPT
                          !.requests = IF h = "mutate" THEN 1 ELSE 0]
    /\ UNCHANGED <<user, initialized, localStorage, appMounted, route, search,
                   pending>>

\* an initiation request settles; the callbacks are options of the mutation
\* and run whether or not the instance that started it is still mounted
InitiateResolve(c, mine, out) ==
    /\ ~page.left
    /\ IF mine THEN page.cur[c] > 0 ELSE page.old[c] > 0
    /\ LET s == OnSettled(out)
           p1 == IF mine
                 THEN [page EXCEPT !.cur[c] = @ - 1, !.isPending[c] = FALSE]
                 ELSE [page EXCEPT !.old[c] = @ - 1]
       IN  page' = [p1 EXCEPT !.submits = IF s.submit THEN @ + 1 ELSE @,
                              !.left = s.submit,
                              !.toast = s.toast, !.card = c]
    /\ last' = Ev("initiateDone", IF mine THEN "cur" ELSE "old", out)
    /\ UNCHANGED <<user, initialized, localStorage, appMounted, route, search,
                   pending>>

\* the cards unmount: their requests stay in flight
Unmounted(pg) ==
    [pg EXCEPT !.isPending = FreshCards, !.cur = NoCards,
               !.old = [c \in Cards |-> pg.old[c] + pg.cur[c]]]

\* the user leaves /plans for the main page, or comes back
PricingNavigate(r) ==
    /\ ~page.left
    /\ r # route
    /\ LET denied == r = "/plans" /\ ProtectedEffect(StoreState).nav
       IN  /\ route' = IF denied THEN "/" ELSE r
           /\ last' = [Ev("navigate", "-", "-") EXCEPT
                          !.guardNavs = IF denied THEN 1 ELSE 0]
    /\ page' = IF route = "/plans" THEN Unmounted(page) ELSE page
    /\ UNCHANGED <<user, initialized, localStorage, appMounted, search, pending>>

\* the response of a fetchUser arrives; the guard sends a cleared session
\* to "/"
PricingFetchUserDone(out) ==
    /\ ~page.left
    /\ LET f == FetchUserFinish(Store, out).s
           denied == route = "/plans" /\ ProtectedEffect(f.st).nav
       IN  /\ user' = f.st.user
           /\ initialized' = f.st.initialized
           /\ localStorage' = f.ls
           /\ route' = IF denied THEN "/" ELSE route
           /\ page' = IF denied THEN Unmounted(page) ELSE page
           /\ last' = [Ev("fetchUserDone", "fetchVer", out.kind) EXCEPT
                          !.data = out.data,
                          !.guardNavs = IF denied THEN 1 ELSE 0]
    /\ UNCHANGED <<appMounted, search, pending>>

NextPricing ==
    \/ \E c \in Cards : CardClick(c)
    \/ \E c \in Cards, mine \in BOOLEAN, out \in InitiateOutcomes :
          InitiateResolve(c, mine, out)
    \/ \E r \in {"/", "/plans"} : PricingNavigate(r)
    \/ \E out \in BodyOutcomes : PricingFetchUserDone(out)

SpecPricing == InitPricing /\ [][NextPricing]_vars

\* the user's plan covers the card's plan
Covers(c, u) ==
    /\ u # NULL
    /\ IF c = "standard" THEN u.plan \in {"standard", "premium"}
       ELSE u.plan = "premium"

InitiationsInFlight(pg) ==
    pg.cur["standard"] + pg.old["standard"] + pg.cur["premium"] + pg.old["premium"]

\* C23: handlePayment calls mutate only for a logged-in user, a supplied
\* plan and a plan of the user that does not cover the card's: never on the
\* standard card for a standard or premium user, never on the premium card
\* for a premium user, and a standard user may initiate premium; no other
\* step issues an initiation request.
C23_InitiationGuarded ==
    /\ [](\A c \in Cards, u \in AllUsers \cup {NULL}, pl \in PlanProps :
            /\ HandlePayment(c, u, pl) = "mutate"
                 <=> (u # NULL /\ pl = "plan" /\ ~Covers(c, u))
            /\ Covers(c, u) => ButtonDisabled(c, u, FALSE))
    /\ [][/\ InitiationsInFlight(page') > InitiationsInFlight(page)
               => (last'.op = "click" /\ last'.requests = 1)
          /\ (last'.op = "click" /\ last'.requests = 1)
               => /\ user # NULL
                  /\ page.plan[page'.card] = "plan"
                  /\ ~Covers(page'.card, user)
                  /\ page'.card = "premium"
                  /\ user.plan = "standard"
                  /\ page'.cur[page'.card] = page.cur[page'.card] + 1
          /\ (last'.op = "click" /\ last'.requests = 0)
               => InitiationsInFlight(page') = InitiationsInFlight(page)]_vars

C23_Witness ==
    /\ last.op = "click"
    /\ last.requests = 1
    /\ page.card = "premium"
    /\ page.plan["premium"] = "plan"
    /\ user # NULL
    /\ user.plan = "standard"
    /\ page.cur["premium"] = 1

\* C30 as stated: a card never has two initiations in flight, its button is
\* disabled while one is pending, and the form is submitted once per
\* complete response only.
C30_OneInitiationPerCard ==
    \A c \in Cards :
        /\ page.cur[c] + page.old[c] <= 1
        /\ (CardsMounted /\ page.cur[c] + page.old[c] > 0)
             => ButtonDisabled(c, user, page.isPending[c])

\* C30: a mounted card has at most one initiation of its own in flight and
\* its button is disabled while that one is pending; an initiation started
\* by an instance unmounted since stays in flight beside it.  The gateway
\* form is submitted once for a response with url and parameters and for
\* no other.
C30_OneInitiationPerInstance ==
    /\ [](\A c \in Cards :
            /\ page.cur[c] <= 1
            /\ page.isPending[c] <=> page.cur[c] = 1
            /\ page.isPending[c] => ButtonDisabled(c, user, page.isPending[c]))
    /\ [][/\ (last'.op = "click" /\ last'.requests = 1)
               => (~page.isPending[page'.card] /\ page.cur[page'.card] = 0)
          /\ page'.submits
               = page.submits
                 + (IF last'.op = "initiateDone" /\ last'.out = "complete"
                    THEN 1 ELSE 0)
          /\ (last'.op = "initiateDone" /\ last'.kind = "cur")
               => ~page'.isPending[page'.card]]_vars

C30_Witness ==
    /\ CardsMounted
    /\ page.isPending["premium"]
    /\ page.cur["premium"] = 1
    /\ page.old["premium"] = 1
    /\ ButtonDisabled("premium", user, page.isPending["premium"])

----------------------------------------------------------------------------
\* The apply page (pages/ApplyJob.tsx) behind the Protected guard.

Clock == 0..MaxClock

JobStatuses == {"draft", "published", "closed", "expired"}

\* an application_deadline or expires_at of a job: null, the empty string,
\* a text that is no date, or the ISO text of an instant
DateTexts ==
    [kind : {"null", "empty", "invalid"}, t : {0}] \cup [kind : {"iso"}, t : Clock]

Jobs ==
    [status : JobStatuses, application_deadline : DateTexts, expires_at : DateTexts]

\* the truthiness of a nullable string
Truthy(s) == s.kind \notin {"null", "empty"}

\* new Date(text): the instant, or the Invalid Date whose time value is NaN
DateParse(s) ==
    IF s.kind = "iso" THEN [valid |-> TRUE, t |-> s.t]
    ELSE [valid |-> FALSE, t |-> 0]

\* d < new Date(now): every comparison with NaN is false
Before(d, now) == d.valid /\ d.t < now

IsDeadlinePassed(job, now) ==
    /\ Truthy(job.application_deadline)
    /\ Before(DateParse(job.application_deadline), now)

IsExpired(job, now) ==
    IF Truthy(job.expires_at) THEN Before(DateParse(job.expires_at), now)
    ELSE FALSE

CanApplyIgnoresExpiry(job, now) ==
    job.status = "published" /\ ~IsDeadlinePassed(job, now)

CanApply(job, now) ==
    job.status = "published" /\ ~IsDeadlinePassed(job, now) /\ ~IsExpired(job, now)

\* what ApplyJob returns when it renders at the instant now
ApplyView(query, job, now) ==
    IF query = "loading" THEN "loading"
    ELSE IF query = "error" THEN "error"
    ELSE IF job = NULL THEN "notFound"
    ELSE IF ~CanApply(job, now) THEN "closed"
    ELSE "form"

\* handleSubmit of the form
HandleSubmit(u) == IF u = NULL THEN "login" ELSE "mutate"

\* the page renders at the clock's instant
ApplyRender(pg) ==
    [pg EXCEPT !.renderedAt = pg.now,
               !.view = ApplyView(pg.query, pg.job, pg.now)]

\* the guard has let a user in and the job query has started
InitApply ==
    /\ user \in Users
    /\ initialized = TRUE
    /\ localStorage = SetItem([k \in Keys |-> <<>>], StoreState)
    /\ appMounted = TRUE
    /\ route = "/jobs/view/:id/apply"
    /\ search = "none"
    /\ pending = NoRequests
    /\ last = Ev("open", "-", "-")
    /\ page = ApplyRender([kind |-> "apply", query |-> "loading", job |-> NULL,
                           now |-> 0, renderedAt |-> 0, view |-> "loading",
                           isSubmitting |-> FALSE, sent |-> 0])

\* getPublicJob resolves with the job
ApplyQueryResolved(job) ==
    /\ page.query = "loading"
    /\ page' = ApplyRender([page EXCEPT !.query = "success", !.job = job])
    /\ last' = Ev("jobDone", "-", "ok")
    /\ UNCHANGED <<user, initialized, localStorage, appMounted, route, search,
                   pending>>

\* getPublicJob throws
ApplyQueryFailed ==
    /\ page.query = "loading"
    /\ page' = ApplyRender([page EXCEPT !.query = "error"])
    /\ last' = Ev("jobDone", "-", "error")
    /\ UNCHANGED <<user, initialized, localStorage, appMounted, route, search,
                   pending>>

\* time passes; nothing makes the page render
Tick ==
    /\ page.view # "left"
    /\ page.now < MaxClock
    /\ page' = [page EXCEPT !.now = page.now + 1]
    /\ last' = Ev("tick", "-", "-")
    /\ UNCHANGED <<user, initialized, localStorage, appMounted, route, search,
                   pending>>

\* the form is submitted: handleSubmit, and the render the pending mutation
\* causes
ApplySubmit ==
    /\ page.view = "form"
    /\ ~page.isSubmitting
    /\ page.sent < MaxApplications
    /\ IF HandleSubmit(user) = "mutate"
       THEN /\ page' = ApplyRender([page EXCEPT !.isSubmitting = TRUE,
                                                !.sent = page.sent + 1])
            /\ last' = [Ev("submit", "-", "-") EXCEPT !.requests = 1]
            /\ route' = route
       ELSE /\ page' = [page EXCEPT !.view = "left"]
            /\ last' = [Ev("submit", "-", "-") EXCEPT !.toasts = 1,
                                                      !.navTo = "/login"]
            /\ route' = "/login"
    /\ UNCHANGED <<user, initialized, localStorage, appMounted, search, pending>>

\* applyForJob settles: onSuccess leaves for the job's page, onError stays
ApplyResolve(out) ==
    /\ page.view # "left"
    /\ page.isSubmitting
    /\ IF out = "ok"
       THEN /\ page' = [page EXCEPT !.isSubmitting = FALSE, !.view = "left"]
            /\ route' = "/jobs/view/:id"
       ELSE /\ page' = ApplyRender([page EXCEPT !.isSubmitting = FALSE])
            /\ route' = route
    /\ last' = [Ev("applyDone", "-", out) EXCEPT !.toasts = 1]
    /\ UNCHANGED <<user, initialized, localStorage, appMounted, search, pending>>

NextApply ==
    \/ \E job \in Jobs : ApplyQueryResolved(job)
    \/ ApplyQueryFailed
    \/ Tick
    \/ ApplySubmit
    \/ \E out \in {"ok", "error"} : ApplyResolve(out)

SpecApply == InitApply /\ [][NextApply]_vars

\* the instant of a date text has passed at the instant now
Passed(s, now) == s.kind = "iso" /\ s.t < now

\* C24: for a loaded job the page renders the form exactly when, at the
\* instant of that render, the status is "published" and neither the
\* deadline nor the expiry, if any, has passed, and the applications-closed
\* view in every other case; an application is sent from the form only.
C24_FormOnlyWhenOpen ==
    /\ [](/\ \A job \in Jobs, n \in Clock :
               ApplyView("success", job, n)
                 = IF /\ job.status = "published"
                      /\ ~Passed(job.application_deadline, n)
                      /\ ~Passed(job.expires_at, n)
                   THEN "form" ELSE "closed"
          /\ page.view = "form"
               => /\ page.job # NULL
                  /\ page.job.status = "published"
                  /\ ~Passed(page.job.application_deadline, page.renderedAt)
                  /\ ~Passed(page.job.expires_at, page.renderedAt)
          /\ (page.query = "success" /\ page.view # "left")
               => page.view \in {"form", "closed"})
    /\ [][/\ page'.sent > page.sent => page.view = "form"
          /\ page.view = "closed"
               => (page'.sent = page.sent /\ page'.view \in {"closed", "left"})]_vars

\* C24 as stated: while the form is on screen the job is published and
\* neither its deadline nor its expiry has passed.
C24_FormOnlyBeforeDeadline ==
    page.view = "form"
        => /\ page.job.status = "published"
           /\ ~Passed(page.job.application_deadline, page.now)
           /\ ~Passed(page.job.expires_at, page.now)

C24_Witness ==
    /\ page.view = "closed"
    /\ page.job # NULL
    /\ page.job.status = "published"
    /\ Passed(page.job.expires_at, page.renderedAt)
    /\ ~Passed(page.job.application_deadline, page.renderedAt)
    /\ page.sent = 1

----------------------------------------------------------------------------
\* The list of the user's jobs (pages/ViewJobs.tsx) behind the role guard.

\* no page parameter: getNextPageParam's undefined
NoPageParam == 0

\* the server's answer to getMyJobs(p, PAGE_SIZE): the page asked for, and
\* whether the list goes on behind it
ServerPage(p, hasNext) == [page |-> p, has_next |-> hasNext]

ServerHasNext(p) == IF p < MaxPages THEN BOOLEAN ELSE {FALSE}

GetNextPageParamAlways(lastPage) == lastPage.page + 1

GetNextPageParam(lastPage) ==
    IF lastPage.has_next THEN lastPage.page + 1 ELSE NoPageParam

\* the infinite query's hasNextPage
HasNextPage(pages) ==
    pages # <<>> /\ GetNextPageParam(pages[Len(pages)]) # NoPageParam

ObserverFetchesWhileFetching(isIntersecting, hasNextPage, isFetchingNextPage) ==
    isIntersecting /\ hasNextPage

\* the IntersectionObserver's callback: does it call fetchNextPage
ObserverFetches(isIntersecting, hasNextPage, isFetchingNextPage) ==
    isIntersecting /\ hasNextPage /\ ~isFetchingNextPage

IsFetchingNextPage(pg) == pg.fetching = "next"

JobsView(pg) ==
    IF pg.status = "loading" THEN "skeleton"
    ELSE IF pg.status = "error" THEN "error"
    ELSE "list"

\* the commit after a change of the query: the effect runs again, and
\* observes the trigger if it is mounted, when one of its dependencies changed
JobsCommit(old, new) ==
    IF <<HasNextPage(new.pages), IsFetchingNextPage(new)>>
         # <<HasNextPage(old.pages), IsFetchingNextPage(old)>>
    THEN [new EXCEPT !.observing = (JobsView(new) = "list")]
    ELSE new

\* the refetch of the pages held: page 1, then each next page while
\* getNextPageParam gives one, as many pages as are held at most
RECURSIVE Refetched(_, _)
Refetched(n, k) ==
    IF k = 0 THEN {<<>>}
    ELSE LET p == n - k + 1
         IN  UNION {IF GetNextPageParam(ServerPage(p, b)) = NoPageParam \/ k = 1
                    THEN {<<ServerPage(p, b)>>}
                    ELSE {<<ServerPage(p, b)>> \o rest : rest \in Refetched(n, k - 1)}
                    : b \in ServerHasNext(p)}

\* the guard has let a user of role "both" in; the first page is asked for
InitJobs ==
    /\ user \in {u \in Users : u.role = "both"}
    /\ initialized = TRUE
    /\ localStorage = SetItem([k \in Keys |-> <<>>], StoreState)
    /\ appMounted = TRUE
    /\ route = "/jobs"
    /\ search = "none"
    /\ pending = NoRequests
    /\ last = Ev("open", "-", "-")
    /\ page = [kind |-> "jobs", status |-> "loading", pages |-> <<>>,
               fetching |-> "first", param |-> 1, intersecting |-> FALSE,
               observing |-> FALSE]

JobsFrame ==
    UNCHANGED <<user, initialized, localStorage, appMounted, route, search,
                pending>>

\* the first page arrives, or getMyJobs throws
FirstPageResolve(out, hasNext) ==
    /\ page.fetching = "first"
    /\ page' = JobsCommit(page,
                  IF out = "ok"
                  THEN [page EXCEPT !.status = "success",
                                    !.pages = <<ServerPage(page.param, hasNext)>>,
                                    !.fetching = "none", !.param = NoPageParam]
                  ELSE [page EXCEPT !.status = "error", !.fetching = "none",
                                    !.param = NoPageParam])
    /\ last' = Ev("firstPageDone", "-", out)
    /\ JobsFrame

\* the observer reports the trigger: its callback, and fetchNextPage, which
\* cancels a refetch under way
ObserverCallback(isIntersecting) ==
    /\ page.observing
    /\ JobsView(page) = "list"
    /\ IF ObserverFetches(isIntersecting, HasNextPage(page.pages),
                          IsFetchingNextPage(page))
       THEN /\ page' = JobsCommit(page,
                          [page EXCEPT !.intersecting = isIntersecting,
                                       !.fetching = "next",
                                       !.param = GetNextPageParam(
                                                   page.pages[Len(page.pages)])])
            /\ last' = [Ev("intersect", "-", "-") EXCEPT !.requests = 1]
       ELSE /\ page' = [page EXCEPT !.intersecting = isIntersecting]
            /\ last' = Ev("intersect", "-", "-")
    /\ JobsFrame

\* the next page arrives, or getMyJobs throws
NextPageResolve(out, hasNext) ==
    /\ page.fetching = "next"
    /\ page' = JobsCommit(page,
                  IF out = "ok"
                  THEN [page EXCEPT !.pages = Append(page.pages,
                                                ServerPage(page.param, hasNext)),
                                    !.fetching = "none", !.param = NoPageParam]
                  ELSE [page EXCEPT !.status = "error", !.fetching = "none",
                                    !.param = NoPageParam])
    /\ last' = Ev("nextPageDone", "-", out)
    /\ JobsFrame

\* the window is focused again: the stale query refetches its pages
JobsRefetch ==
    /\ page.status = "success"
    /\ page.fetching = "none"
    /\ page' = JobsCommit(page, [page EXCEPT !.fetching = "refetch"])
    /\ last' = Ev("refetch", "-", "-")
    /\ JobsFrame

\* the refetched pages replace those held, or getMyJobs throws
JobsRefetchResolve(out, pages) ==
    /\ page.fetching = "refetch"
    /\ page' = JobsCommit(page,
                  IF out = "ok"
                  THEN [page EXCEPT !.pages = pages, !.fetching = "none"]
                  ELSE [page EXCEPT !.status = "error", !.fetching = "none"])
    /\ last' = Ev("refetchDone", "-", out)
    /\ JobsFrame

NextJobs ==
    \/ \E out \in {"ok", "error"}, b \in ServerHasNext(1) : FirstPageResolve(out, b)
    \/ \E i \in BOOLEAN : ObserverCallback(i)
    \/ \E out \in {"ok", "error"}, b \in ServerHasNext(page.param) :
           NextPageResolve(out, b)
    \/ JobsRefetch
    \/ \E out \in {"ok", "error"},
          pages \in Refetched(Len(page.pages), Len(page.pages)) :
           JobsRefetchResolve(out, pages)

SpecJobs == InitJobs /\ [][NextJobs]_vars

\* C25: the observer's callback calls fetchNextPage only when the trigger
\* intersects, a next page exists and no next-page fetch is in flight; the
\* next page parameter is lastPage.page + 1 exactly when lastPage.has_next
\* and none otherwise; the pages held are 1, 2, ... in order, without gap
\* or duplicate, and the page asked for is the one after the last held.
C25_PagesInOrder ==
    /\ [](/\ \A p \in 1..MaxPages, b \in BOOLEAN :
               GetNextPageParam(ServerPage(p, b))
                 = IF b THEN p + 1 ELSE NoPageParam
          /\ \A i, h, f \in BOOLEAN :
               ObserverFetches(i, h, f) <=> (i /\ h /\ ~f)
          /\ \A i \in 1..Len(page.pages) :
               /\ page.pages[i].page = i
               /\ i < Len(page.pages) => page.pages[i].has_next
          /\ IsFetchingNextPage(page)
               => /\ page.param = Len(page.pages) + 1
                  /\ page.pages[Len(page.pages)].has_next)
    /\ [][/\ (IsFetchingNextPage(page') /\ ~IsFetchingNextPage(page))
               <=> (last'.op = "intersect" /\ last'.requests = 1)
          /\ (last'.op = "intersect" /\ last'.requests = 1)
               => /\ page'.intersecting
                  /\ page.pages # <<>>
                  /\ page.pages[Len(page.pages)].has_next
                  /\ ~IsFetchingNextPage(page)
                  /\ page'.param = page.pages[Len(page.pages)].page + 1
          /\ Len(page'.pages) > Len(page.pages)
               => /\ Len(page'.pages) = Len(page.pages) + 1
                  /\ last'.op \in {"firstPageDone", "nextPageDone"}
                  /\ page'.pages[Len(page'.pages)].page = page.param]_vars

C25_Witness ==
    /\ last.op = "nextPageDone"
    /\ last.out = "ok"
    /\ Len(page.pages) = MaxPages
    /\ page.pages[MaxPages].page = MaxPages
    /\ ~HasNextPage(page.pages)

====
